---- MODULE Spec2Model ----
(***************************************************************************)
(* A model of RunOpenMMSimulation (propertyestimator/protocols/            *)
(* simulation.py): one protocol object executing, possibly several times,  *)
(* against one working directory.                                          *)
(*                                                                         *)
(* The physical state held by the OpenMM context is abstracted to the      *)
(* number of integration steps taken since the cold start (the simulation  *)
(* clock).  A trajectory frame and a statistics row are abstracted to the  *)
(* clock value at which they were recorded (always >= 1); a slot of the    *)
(* pre-allocated statistics buffer which was never filled holds 0, as      *)
(* np.zeros leaves it.                                                     *)
(*                                                                         *)
(* Further specifications follow the simulation protocol's: FairSpec, the   *)
(* protocol with its stepping loop carried on; SpecData, the compatibility *)
(* and merge functions of StoredSimulationData                             *)
(* (propertyestimator/storage/data.py); SpecGradient, the                  *)
(* central-difference gradient protocol; SpecStatistics, the columns of   *)
(* the table _write_statistics_array writes; SpecSystem, the count of the  *)
(* degrees of freedom of a system; and SpecYank (FairSpecYank with its     *)
(* threads and processes scheduled), BaseYankProtocol.execute with the     *)
(* worker process it delegates to off the main thread.                     *)
(***************************************************************************)
EXTENDS Integers, Sequences, FiniteSets, TLC

\* ------------------------------------------------------------------ bounds
MaxCalls == 2
MaxSteps == 3
MaxFreq == 2
MaxInefficiency == 2
MaxParameter == 3
MaxObservable == 9
MaxRows == 2
MaxPressure == 2
MaxTemperature == 2
MaxParticles == 3
MaxConstraints == 2
MaxFreeEnergy == 2
MaxUncertainty == 1

\* ------------------------------------------------------------- file system
CheckpointPath == "checkpoint.xml"
TrajectoryFilePath == "trajectory.dcd"
StatisticsFilePath == "statistics.csv"
TemporaryStatisticsPath == "temp_statistics.csv"
TemporaryTrajectoryPath == "temp_trajectory.dcd"
OutputCoordinateFile == "output.pdb"
InputCopyPath == "input.pdb"

FileNames == {CheckpointPath, TrajectoryFilePath, StatisticsFilePath,
              TemporaryStatisticsPath, TemporaryTrajectoryPath,
              OutputCoordinateFile, InputCopyPath}

\* A file is absent, complete, or partial: opened for writing (truncated) by a
\* writer which has not finished writing it yet.
NoFile == [exists |-> FALSE, partial |-> FALSE, data |-> <<>>]
File(d) == [exists |-> TRUE, partial |-> FALSE, data |-> d]
PartialFile(d) == [exists |-> TRUE, partial |-> TRUE, data |-> d]

IsFile(f) == f.exists

\* ------------------------------------------------------------------ values
NoContext == -1

NVT == "NVT"
NPT == "NPT"

Min(a, b) == IF a <= b THEN a ELSE b

Ceil(a, b) == (a + b - 1) \div b

\* Mutant: the buffer is allocated one slot short.
ZerosOneShort(n) == [i \in 1..(n - 1) |-> 0]

\* numpy.zeros(n)
Zeros(n) == [i \in 1..n |-> 0]

IsPrefix(s, t) == Len(s) <= Len(t) /\ SubSeq(t, 1, Len(s)) = s

Configs == [steps : 0..MaxSteps,
            output_frequency : 1..MaxFreq,
            ensemble : {NVT, NPT},
            temperature : BOOLEAN,
            pressure : BOOLEAN,
            enable_pbc : BOOLEAN,
            save_rolling_statistics : BOOLEAN]

DefaultConfig == [steps |-> 0, output_frequency |-> 1, ensemble |-> NPT,
                  temperature |-> TRUE, pressure |-> TRUE, enable_pbc |-> TRUE,
                  save_rolling_statistics |-> TRUE]

VARIABLES
    fs,                   \* the working directory: file name -> file
    context,              \* self._context: NoContext, or the simulation clock
    cfg,                  \* the protocol's inputs during the call in progress
    pc,                   \* where the call in progress stands ("idle": none)
    current_step_count,   \* steps taken by the stepping loop of this call
    current_step,         \* reporting index of the stepping loop of this call
    raw_statistics,       \* the pre-sized buffer of raw values of this call
    result,               \* "none", or "failure" once the loop has caught
    stream_open,          \* the temporary trajectory's file object is open
    concatenated,         \* the joined statistics while being written out
    calls,                \* log of the calls made: steps, frequency, outcome
    pre                   \* the working directory as it was when the call began

vars == <<fs, context, cfg, pc, current_step_count, current_step,
          raw_statistics, result, stream_open, concatenated, calls, pre>>

\* The local variables of _simulate: they exist while a call is in progress.
locals == <<current_step_count, current_step, raw_statistics, result,
            concatenated>>

\* The state of the protocols and functions modelled beside the simulation
\* protocol; each has a specification of its own further down.
VARIABLES
    stored,               \* storage/data.py: two records and the call on them
    gradient_protocol,    \* the central-difference gradient protocol
    statistics,           \* _write_statistics_array: its inputs and its table
    system,               \* the OpenMM system and its degrees of freedom
    yank                  \* BaseYankProtocol: the parent, the worker, the queue

others == <<stored, gradient_protocol, statistics, system, yank>>

\* The value of a variable in the specifications which do not use it.
Unused == "unused"

InitSimulation ==
    /\ fs = [n \in FileNames |-> NoFile]
    /\ context = NoContext
    /\ cfg = DefaultConfig
    /\ pc = "idle"
    /\ current_step_count = 0
    /\ current_step = 0
    /\ raw_statistics = <<>>
    /\ result = "none"
    /\ stream_open = FALSE
    /\ concatenated = <<>>
    /\ calls = <<>>
    /\ pre = [n \in FileNames |-> NoFile]

Init ==
    /\ InitSimulation
    /\ stored = Unused
    /\ gradient_protocol = Unused
    /\ statistics = Unused
    /\ system = Unused
    /\ yank = Unused

\* The log with the outcome of the call in progress and, for a failure value,
\* its message.
Logged(outcome, message) ==
    [calls EXCEPT ![Len(calls)] =
        [@ EXCEPT !.outcome = outcome, !.message = message]]

\* The call ends: its local variables are gone, and the inputs are whatever
\* the caller sets before the next call.
Returned(outcome, message) ==
    /\ pc' = "idle"
    /\ calls' = Logged(outcome, message)
    /\ cfg' = DefaultConfig
    /\ current_step_count' = 0
    /\ current_step' = 0
    /\ raw_statistics' = <<>>
    /\ result' = "none"
    /\ concatenated' = <<>>

\* The call goes on to p.
Goto(p) ==
    /\ pc' = p
    /\ UNCHANGED <<calls, cfg, locals>>

\* --------------------------------------------------------------- execute

\* The pressure execute works with: None in the NVT ensemble.
EffectivePressure(c) == IF c.ensemble = NVT THEN FALSE ELSE c.pressure

\* Mutant: the check of the periodic boundaries is missing.
ValidationErrorNoPbc(c) ==
    IF ~c.temperature THEN "temperature"
    ELSE IF c.ensemble = NPT /\ ~EffectivePressure(c) THEN "pressure"
    ELSE "ok"

\* Mutant: the check of the temperature is missing.
ValidationErrorNoTemperature(c) ==
    IF c.ensemble = NPT /\ ~EffectivePressure(c) THEN "pressure"
    ELSE IF c.ensemble = NPT /\ ~c.enable_pbc THEN "pbc"
    ELSE "ok"

\* The checks execute makes before any work: "ok", or the error returned.
ValidationError(c) ==
    IF ~c.temperature THEN "temperature"
    ELSE IF c.ensemble = NPT /\ ~EffectivePressure(c) THEN "pressure"
    ELSE IF c.ensemble = NPT /\ ~c.enable_pbc THEN "pbc"
    ELSE "ok"

\* safe_unlink of the two temporary files.
CleanTemporaryFiles(d) ==
    [d EXCEPT ![TemporaryStatisticsPath] = NoFile,
              ![TemporaryTrajectoryPath] = NoFile]

LogEntry(c, outcome, message) ==
    [steps |-> c.steps, output_frequency |-> c.output_frequency,
     outcome |-> outcome, message |-> message]

Execute(c) ==
    /\ pc = "idle"
    /\ UNCHANGED others
    /\ Len(calls) < MaxCalls
    /\ pre' = fs
    /\ IF ValidationError(c) # "ok"
       THEN /\ pc' = "idle"
            /\ calls' = Append(calls, LogEntry(c, "config_failure",
                                                ValidationError(c)))
            /\ UNCHANGED <<fs, cfg>>
       ELSE /\ pc' = "setup"
            /\ calls' = Append(calls, LogEntry(c, "running", ""))
            /\ cfg' = c
            /\ fs' = CleanTemporaryFiles(fs)
    /\ UNCHANGED <<context, locals, stream_open>>

\* ------------------------------------------------ _setup_simulation_objects

\* Mutant: the checkpoint is not looked for, every new context is started
\* from the input coordinates.
InitialStateIgnoringCheckpoint(d, c, box_vectors) ==
    IF c.enable_pbc /\ ~box_vectors THEN "raise" ELSE "cold"

\* What the new context is initialised with: the checkpoint's state if a
\* checkpoint file exists, else the input coordinates (clock 0); "raise" when
\* the checkpoint cannot be deserialized, or PBC is enabled and the input
\* coordinate file carries no box vectors.
InitialState(d, c, box_vectors) ==
    IF IsFile(d[CheckpointPath])
    THEN IF d[CheckpointPath].partial THEN "raise"
         ELSE "checkpoint"
    ELSE IF c.enable_pbc /\ ~box_vectors THEN "raise"
         ELSE "cold"

SetupSimulationObjects ==
    /\ pc = "setup"
    /\ UNCHANGED others
    /\ IF context # NoContext
       THEN /\ Goto("simulate")
            /\ UNCHANGED context
       ELSE \E box_vectors \in BOOLEAN :
              LET from == InitialState(fs, cfg, box_vectors) IN
              CASE from = "raise" ->
                    /\ Returned("raised", "")
                    /\ UNCHANGED context
                [] from = "checkpoint" ->
                    /\ context' = fs[CheckpointPath].data[1]
                    /\ Goto("simulate")
                [] OTHER ->
                    /\ context' = 0
                    /\ Goto("simulate")
    /\ UNCHANGED <<fs, stream_open, pre>>

\* ------------------------------------------------------------- _simulate

\* Mutant: the frames are written to the final trajectory.
FramePathFinal == TrajectoryFilePath

\* The path the trajectory frames of a call are written to.
FramePath == TemporaryTrajectoryPath

\* The path _write_statistics_array writes the statistics table to.
RollingStatisticsPath == TemporaryStatisticsPath

\* Mutant: the buffer is sized by the whole intervals only, the quotient
\* being rounded down.
ExpectedNumberOfStatisticsFloor(c) == c.steps \div c.output_frequency

ExpectedNumberOfStatistics(c) == Ceil(c.steps, c.output_frequency)

\* Mutant: the existing trajectory is not copied, the new one starts empty.
StageTrajectoryNoAppend(d) == [d EXCEPT ![FramePath] = File(<<>>)]

\* The final trajectory, if there is one, is copied to the temporary path to
\* be appended to; else the temporary trajectory is created empty.
StageTrajectory(d) ==
    IF IsFile(d[TrajectoryFilePath])
    THEN [d EXCEPT ![FramePath] = File(d[TrajectoryFilePath].data)]
    ELSE [d EXCEPT ![FramePath] = File(<<>>)]

\* Mutant: a whole interval is always taken.
StepsToTakeWholeInterval(c, count) == c.output_frequency

StepsToTake(c, count) == Min(c.output_frequency, c.steps - count)

\* Mutant: the loop goes on only while a whole interval remains.
LoopContinuesWholeIntervalsOnly(c, count) ==
    count + c.output_frequency <= c.steps

\* The test of the stepping loop.
LoopContinues(c, count) == count < c.steps

\* Mutant: a caught exception returns without writing the checkpoint.
LoopExitSkippingCheckpoint(res) ==
    IF res = "failure" THEN "close" ELSE "checkpoint"

\* Where control goes when the stepping loop ends: normally (res = "none") or
\* by an exception caught by the handler (res = "failure").  Both fall
\* through to the checkpoint write.
LoopExit(res) == "checkpoint"

LoopNext(c, count) ==
    IF LoopContinues(c, count) THEN "step" ELSE LoopExit("none")

\* Mutant: the slice is [0 : current_step], the row of the index left out.
StatisticsTableExclusive(raw, step) == SubSeq(raw, 1, Min(step, Len(raw)))

\* The rows _write_statistics_array writes: the slice [0 : current_step + 1]
\* of the raw buffer (a slice past the end of the buffer stops at its end).
StatisticsTable(raw, step) == SubSeq(raw, 1, Min(step + 1, Len(raw)))

\* _simulate up to the first test of the stepping loop.
PrepareSimulation ==
    /\ pc = "simulate"
    /\ UNCHANGED others
    /\ fs' = [StageTrajectory(fs) EXCEPT ![InputCopyPath] = File(<<>>)]
    /\ stream_open' = TRUE
    /\ raw_statistics' = Zeros(ExpectedNumberOfStatistics(cfg))
    /\ current_step_count' = 0
    /\ current_step' = 0
    /\ result' = "none"
    /\ pc' = LoopNext(cfg, 0)
    /\ UNCHANGED <<context, cfg, concatenated, calls, pre>>

\* integrator.step(steps_to_take): completes, or raises having advanced the
\* state by fewer steps.
IntegratorStep ==
    /\ pc = "step"
    /\ UNCHANGED others
    /\ LET steps_to_take == StepsToTake(cfg, current_step_count) IN
       \/ /\ context' = context + steps_to_take
          /\ pc' = "frame"
          /\ UNCHANGED result
       \/ \E done \in 0..(steps_to_take - 1) :
            /\ context' = context + done
            /\ result' = "failure"
            /\ pc' = LoopExit("failure")
    /\ UNCHANGED <<fs, cfg, current_step_count, current_step, raw_statistics,
                   stream_open, concatenated, calls, pre>>

\* context.getState and trajectory_dcd_object.writeModel: the frame is
\* appended to the open trajectory, or an exception is raised.
WriteFrame ==
    /\ pc = "frame"
    /\ UNCHANGED others
    /\ \/ /\ fs' = [fs EXCEPT ![FramePath] = File(Append(@.data, context))]
          /\ pc' = "statistics"
          /\ UNCHANGED result
       \/ /\ result' = "failure"
          /\ pc' = LoopExit("failure")
          /\ UNCHANGED fs
    /\ UNCHANGED <<context, cfg, current_step_count, current_step,
                   raw_statistics, stream_open, concatenated, calls, pre>>

\* The raw values are stored at the reporting index, the rolling statistics
\* written if enabled, the cursor advanced and the loop tested again; or the
\* write raises.
RecordStatistics ==
    /\ pc = "statistics"
    /\ UNCHANGED others
    /\ raw_statistics' = [raw_statistics EXCEPT ![current_step + 1] = context]
    /\ \/ /\ fs' = IF cfg.save_rolling_statistics
                   THEN [fs EXCEPT ![RollingStatisticsPath] =
                            File(StatisticsTable(raw_statistics', current_step))]
                   ELSE fs
          /\ current_step_count' =
                current_step_count + StepsToTake(cfg, current_step_count)
          /\ current_step' = current_step + 1
          /\ pc' = LoopNext(cfg, current_step_count')
          /\ UNCHANGED result
       \/ /\ cfg.save_rolling_statistics
          /\ result' = "failure"
          /\ pc' = LoopExit("failure")
          /\ UNCHANGED <<fs, current_step_count, current_step>>
    /\ UNCHANGED <<context, cfg, stream_open, concatenated, calls, pre>>

\* open(self._checkpoint_path, 'w'): the checkpoint file is truncated ...
OpenCheckpoint ==
    /\ pc = "checkpoint"
    /\ UNCHANGED others
    /\ fs' = [fs EXCEPT ![CheckpointPath] = PartialFile(<<>>)]
    /\ Goto("checkpoint_write")
    /\ UNCHANGED <<context, stream_open, pre>>

\* ... and the serialized state of the context written to it.
WriteCheckpoint ==
    /\ pc = "checkpoint_write"
    /\ UNCHANGED others
    /\ fs' = [fs EXCEPT ![CheckpointPath] = File(<<context>>)]
    /\ Goto("close")
    /\ UNCHANGED <<context, stream_open, pre>>

\* The trajectory stream is closed, the statistics saved, and a failure
\* caught in the loop returned.
SaveStatistics ==
    /\ pc = "close"
    /\ UNCHANGED others
    /\ stream_open' = FALSE
    /\ fs' = [fs EXCEPT ![RollingStatisticsPath] =
                 File(StatisticsTable(raw_statistics, current_step))]
    /\ IF result = "failure"
       THEN Returned("failure", "traceback")
       ELSE Goto("promote_trajectory")
    /\ UNCHANGED <<context, pre>>

\* os.replace(temporary trajectory, final trajectory)
PromoteTrajectory ==
    /\ pc = "promote_trajectory"
    /\ UNCHANGED others
    /\ fs' = [fs EXCEPT ![TrajectoryFilePath] = fs[TemporaryTrajectoryPath],
                        ![TemporaryTrajectoryPath] = NoFile]
    /\ Goto("promote_statistics")
    /\ UNCHANGED <<context, stream_open, pre>>

\* Mutant: the rows of the call come first, the existing rows after them.
StatisticsArrayJoinReversed(existing, current) == current \o existing

\* Mutant: the rows of the existing file are dropped.
StatisticsArrayJoinCurrentOnly(existing, current) == current

\* StatisticsArray.join: the rows of the first, then the rows of the second.
StatisticsArrayJoin(existing, current) == existing \o current

\* What a file being rewritten in place may hold before the write ends.
Prefixes(s) == {SubSeq(s, 1, n) : n \in 0..Len(s)}

\* With no final statistics file the temporary one is renamed to it; else the
\* two are read and joined, and the final file opened for writing.
PromoteStatistics ==
    /\ pc = "promote_statistics"
    /\ UNCHANGED others
    /\ IF ~IsFile(fs[StatisticsFilePath])
       THEN /\ fs' = [fs EXCEPT
                        ![StatisticsFilePath] = fs[TemporaryStatisticsPath],
                        ![TemporaryStatisticsPath] = NoFile]
            /\ Goto("output")
       ELSE LET joined == StatisticsArrayJoin(fs[StatisticsFilePath].data,
                                              fs[TemporaryStatisticsPath].data)
            IN \/ /\ concatenated' = joined
                  /\ \E written \in Prefixes(joined) :
                        fs' = [fs EXCEPT
                                 ![StatisticsFilePath] = PartialFile(written)]
                  /\ pc' = "statistics_write"
                  /\ UNCHANGED <<calls, cfg, current_step_count, current_step,
                                 raw_statistics, result>>
               \/ /\ fs[StatisticsFilePath].partial
                  /\ Returned("raised", "")
                  /\ UNCHANGED fs
    /\ UNCHANGED <<context, stream_open, pre>>

\* concatenated_statistics.to_pandas_csv(final statistics) completes.
WriteStatistics ==
    /\ pc = "statistics_write"
    /\ UNCHANGED others
    /\ fs' = [fs EXCEPT ![StatisticsFilePath] = File(concatenated)]
    /\ Goto("output")
    /\ UNCHANGED <<context, stream_open, pre>>

\* The final coordinates are written and the outputs returned.
WriteOutput ==
    /\ pc = "output"
    /\ UNCHANGED others
    /\ fs' = [fs EXCEPT ![OutputCoordinateFile] = File(<<context>>)]
    /\ Returned("success", "")
    /\ UNCHANGED <<context, stream_open, pre>>

\* ------------------------------------------------------------ environment

\* The process running the call is killed: the protocol object, its context
\* and its open files are gone; the working directory stays as it is.
Kill ==
    /\ pc # "idle"
    /\ UNCHANGED others
    /\ Returned("killed", "")
    /\ context' = NoContext
    /\ stream_open' = FALSE
    /\ UNCHANGED <<fs, pre>>

\* A new protocol object (with no context yet) is used for the next call.
NewProtocol ==
    /\ pc = "idle"
    /\ UNCHANGED others
    /\ context # NoContext
    /\ context' = NoContext
    /\ UNCHANGED <<fs, cfg, pc, locals, stream_open, calls, pre>>

Next ==
    \/ \E c \in Configs : Execute(c)
    \/ SetupSimulationObjects
    \/ PrepareSimulation
    \/ IntegratorStep
    \/ WriteFrame
    \/ RecordStatistics
    \/ OpenCheckpoint
    \/ WriteCheckpoint
    \/ SaveStatistics
    \/ PromoteTrajectory
    \/ PromoteStatistics
    \/ WriteStatistics
    \/ WriteOutput
    \/ Kill
    \/ NewProtocol

Spec == Init /\ [][Next]_vars

\* The statements of the loop body are executed one after the other by the
\* one thread of the call: an iteration under way is carried on.
FairSpec ==
    /\ Spec
    /\ WF_vars(IntegratorStep)
    /\ WF_vars(WriteFrame)
    /\ WF_vars(RecordStatistics)

\* ================================================= storage/data.py
\* StoredSimulationData: the cached records, are_compatible and
\* most_information.  An attribute value is abstracted to one of two tokens
\* (the functions only test values for equality); the statistical
\* inefficiency is a number, the functions comparing it by order.

\* The concrete types a record passed to the functions may have.
DataTypes == {"StoredSimulationData", "Subclass"}

AttributeValues == {"v1", "v2"}

\* The storage attributes StoredSimulationData declares.
StorageAttributes ==
    {"substance", "thermodynamic_state", "property_phase",
     "source_calculation_id", "provenance", "force_field_id",
     "coordinate_file_name", "trajectory_file_name", "statistics_file_name",
     "statistical_inefficiency", "total_number_of_molecules"}

\* Mutant: the force field id is declared with ComparisonBehaviour.Ignore.
ComparisonBehaviorIgnoringForceField(name) ==
    IF name \in {"source_calculation_id", "provenance", "force_field_id",
                 "coordinate_file_name", "trajectory_file_name",
                 "statistics_file_name", "statistical_inefficiency"}
    THEN "Ignore"
    ELSE "Compare"

\* The comparison_behavior each attribute is declared with.
ComparisonBehavior(name) ==
    IF name \in {"source_calculation_id", "provenance",
                 "coordinate_file_name", "trajectory_file_name",
                 "statistics_file_name", "statistical_inefficiency"}
    THEN "Ignore"
    ELSE "Compare"

\* The records: a concrete type and a value for every attribute.
StoredRecords ==
    [type : DataTypes,
     substance : AttributeValues,
     thermodynamic_state : AttributeValues,
     property_phase : AttributeValues,
     source_calculation_id : AttributeValues,
     provenance : AttributeValues,
     force_field_id : AttributeValues,
     coordinate_file_name : AttributeValues,
     trajectory_file_name : AttributeValues,
     statistics_file_name : AttributeValues,
     statistical_inefficiency : 0..MaxInefficiency,
     total_number_of_molecules : AttributeValues]

\* The records the first of the two cached records is drawn from: every type
\* and inefficiency, the other attributes holding the first token (the
\* second record ranges over all of StoredRecords).
FirstRecords ==
    {r \in StoredRecords :
        \A name \in StorageAttributes \ {"statistical_inefficiency"} :
            r[name] = "v1"}

\* Mutant: the test of the two types is inverted.
AreCompatibleTypeTestInverted(stored_data_1, stored_data_2) ==
    IF stored_data_1.type = stored_data_2.type THEN FALSE
    ELSE \A name \in StorageAttributes :
            \/ ComparisonBehavior(name) = "Ignore"
            \/ stored_data_1[name] = stored_data_2[name]

\* Mutant: the type test is isinstance(stored_data_2, type(stored_data_1)).
AreCompatibleIsInstance(stored_data_1, stored_data_2) ==
    IF ~(\/ stored_data_2.type = stored_data_1.type
         \/ stored_data_2.type = "Subclass")
    THEN FALSE
    ELSE \A name \in StorageAttributes :
            \/ ComparisonBehavior(name) = "Ignore"
            \/ stored_data_1[name] = stored_data_2[name]

\* StoredSimulationData.are_compatible.
AreCompatible(stored_data_1, stored_data_2) ==
    IF stored_data_1.type # stored_data_2.type THEN FALSE
    ELSE \A name \in StorageAttributes :
            \/ ComparisonBehavior(name) = "Ignore"
            \/ stored_data_1[name] = stored_data_2[name]

\* What a call of most_information ends with: the exception raised ("none":
\* it returned) and the argument returned ("none": it raised).
Raise(exception) == [raised |-> exception, returned |-> "none"]
Return(argument) == [raised |-> "none", returned |-> argument]

\* Mutant: the compatibility of the two records is not checked.
MostInformationUnchecked(stored_data_1, stored_data_2) ==
    IF stored_data_1.statistical_inefficiency
           < stored_data_2.statistical_inefficiency
    THEN Return("stored_data_1")
    ELSE Return("stored_data_2")

\* Mutant: the inefficiencies are compared with <=.
MostInformationOrEqual(stored_data_1, stored_data_2) ==
    IF ~AreCompatible(stored_data_1, stored_data_2) THEN Raise("ValueError")
    ELSE IF stored_data_1.statistical_inefficiency
               <= stored_data_2.statistical_inefficiency
    THEN Return("stored_data_1")
    ELSE Return("stored_data_2")

\* Mutant: the inefficiencies are not compared, the first record is returned.
MostInformationFirst(stored_data_1, stored_data_2) ==
    IF ~AreCompatible(stored_data_1, stored_data_2) THEN Raise("ValueError")
    ELSE Return("stored_data_1")

\* Mutant: the record with the higher inefficiency is returned.
MostInformationHighest(stored_data_1, stored_data_2) ==
    IF ~AreCompatible(stored_data_1, stored_data_2) THEN Raise("ValueError")
    ELSE IF stored_data_1.statistical_inefficiency
               > stored_data_2.statistical_inefficiency
    THEN Return("stored_data_1")
    ELSE Return("stored_data_2")

\* StoredSimulationData.most_information.
MostInformation(stored_data_1, stored_data_2) ==
    IF ~AreCompatible(stored_data_1, stored_data_2) THEN Raise("ValueError")
    ELSE IF stored_data_1.statistical_inefficiency
               < stored_data_2.statistical_inefficiency
    THEN Return("stored_data_1")
    ELSE Return("stored_data_2")

\* Two cached records a and b, no function called on them yet.
InitData ==
    /\ InitSimulation
    /\ gradient_protocol = Unused
    /\ statistics = Unused
    /\ system = Unused
    /\ yank = Unused
    /\ stored \in {[a |-> x, b |-> y, method |-> "none",
                    stored_data_1 |-> "a", stored_data_2 |-> "b",
                    returned |-> Unused] :
                        x \in FirstRecords, y \in StoredRecords}

\* are_compatible is called on two of the cached records, in either order or
\* on one record twice.
AreCompatibleCall ==
    /\ stored.method = "none"
    /\ \E x \in {"a", "b"}, y \in {"a", "b"} :
          stored' = [stored EXCEPT
                        !.method = "are_compatible",
                        !.stored_data_1 = x,
                        !.stored_data_2 = y,
                        !.returned = AreCompatible(stored[x], stored[y])]
    /\ UNCHANGED <<vars, gradient_protocol, statistics, system, yank>>

\* most_information is called on two of the cached records.
MostInformationCall ==
    /\ stored.method = "none"
    /\ \E x \in {"a", "b"}, y \in {"a", "b"} :
          stored' = [stored EXCEPT
                        !.method = "most_information",
                        !.stored_data_1 = x,
                        !.stored_data_2 = y,
                        !.returned = MostInformation(stored[x], stored[y])]
    /\ UNCHANGED <<vars, gradient_protocol, statistics, system, yank>>

NextData ==
    \/ AreCompatibleCall
    \/ MostInformationCall

SpecData == InitData /\ [][NextData]_<<vars, others>>

\* ========================================= central-difference gradient
\* CentralDifferenceGradient: the quotient of the difference of the two
\* observables by the difference of the two parameter values.  The values are
\* integers; the quotient is the rational number in lowest terms with a
\* positive denominator.

Abs(n) == IF n < 0 THEN -n ELSE n

RECURSIVE GCD(_, _)
GCD(m, n) == IF n = 0 THEN m ELSE GCD(n, m % n)

\* The rational n/d (d # 0) in lowest terms.
Rational(n, d) ==
    LET g == GCD(Abs(n), Abs(d))
        sign == IF d < 0 THEN -1 ELSE 1
    IN  [numerator |-> (sign * n) \div g, denominator |-> (sign * d) \div g]

\* Mutant: the difference of the observables is divided by the forward
\* parameter value alone.
CentralDifferenceGradientForwardOnly(reverse_parameter_value, reverse_observable_value, forward_parameter_value, forward_observable_value) ==
    IF forward_parameter_value = 0 THEN Rational(0, 1)
    ELSE Rational(forward_observable_value - reverse_observable_value,
                  forward_parameter_value)

\* The gradient the protocol outputs.
CentralDifferenceGradient(reverse_parameter_value, reverse_observable_value, forward_parameter_value, forward_observable_value) ==
    Rational(forward_observable_value - reverse_observable_value,
             forward_parameter_value - reverse_parameter_value)

\* The protocol with its four inputs set, not yet executed.
InitGradient ==
    /\ InitSimulation
    /\ stored = Unused
    /\ statistics = Unused
    /\ system = Unused
    /\ yank = Unused
    /\ gradient_protocol \in
          [reverse_parameter_value : -MaxParameter..MaxParameter,
           reverse_observable_value : -MaxObservable..MaxObservable,
           forward_parameter_value : -MaxParameter..MaxParameter,
           forward_observable_value : -MaxObservable..MaxObservable,
           result : {"none"},
           gradient : {Unused}]

\* Mutant: the validation compares the two observables instead of the two
\* parameter values.
InputsAreValidComparingObservables(reverse_parameter_value, reverse_observable_value, forward_parameter_value, forward_observable_value) ==
    forward_observable_value # reverse_observable_value

\* The validation of the inputs: the two parameter values must differ.
InputsAreValid(reverse_parameter_value, reverse_observable_value, forward_parameter_value, forward_observable_value) ==
    forward_parameter_value # reverse_parameter_value

\* execute: equal parameter values are rejected before the quotient is
\* computed.
ExecuteCentralDifferenceGradient ==
    /\ gradient_protocol.result = "none"
    /\ gradient_protocol' =
          IF ~InputsAreValid(gradient_protocol.reverse_parameter_value,
                             gradient_protocol.reverse_observable_value,
                             gradient_protocol.forward_parameter_value,
                             gradient_protocol.forward_observable_value)
          THEN [gradient_protocol EXCEPT !.result = "failure"]
          ELSE [gradient_protocol EXCEPT
                   !.result = "success",
                   !.gradient = CentralDifferenceGradient(
                                    gradient_protocol.reverse_parameter_value,
                                    gradient_protocol.reverse_observable_value,
                                    gradient_protocol.forward_parameter_value,
                                    gradient_protocol.forward_observable_value)]
    /\ UNCHANGED <<vars, stored, statistics, system, yank>>

NextGradient == ExecuteCentralDifferenceGradient

SpecGradient == InitGradient /\ [][NextGradient]_<<vars, others>>

\* ============================================ _write_statistics_array
\* The statistics table at the level of its columns.  Energies, volumes,
\* pressures, temperatures and masses are integers in the units the code
\* works in; a quotient is the exact rational number.  None is the empty
\* sequence and a defined quantity q the sequence <<q>>.

None == <<>>

\* The physical constants, in units in which they are small integers (the
\* formulas of the table are polynomial in them).
AvogadroNumber == 6
BoltzmannConstant == 2
MolarGasConstant == AvogadroNumber * BoltzmannConstant

\* The raw values a slot of the buffers may hold; 0 is what np.zeros left.
PotentialEnergies == {-7, 0, 100}
KineticEnergies == {0, 50}
Volumes == {0, 3}
DegreesOfFreedom == {3, 6}
TotalMasses == {18}

\* Mutant: the pressure of the thermodynamic state is used in every ensemble.
PressureInEveryEnsemble(ensemble, state_pressure) == state_pressure

\* The pressure execute passes on: None in the NVT ensemble.
Pressure(ensemble, state_pressure) ==
    IF ensemble = NVT THEN None ELSE state_pressure

\* Mutant: the total energy leaves the kinetic energy out.
TotalEnergyPotentialOnly(potential_energy, kinetic_energy) ==
    potential_energy

TotalEnergy(potential_energy, kinetic_energy) ==
    potential_energy + kinetic_energy

\* pressure * volume * Avogadro number, 0 without a pressure.
PvTerm(pressure, volume) ==
    IF pressure = None THEN 0 ELSE pressure[1] * volume * AvogadroNumber

\* The columns of the table.
BaseColumns ==
    {"PotentialEnergy", "KineticEnergy", "TotalEnergy", "Temperature",
     "Volume", "Density", "ReducedPotential"}

Columns(pressure) ==
    IF pressure = None THEN BaseColumns ELSE BaseColumns \cup {"Enthalpy"}

\* The table _write_statistics_array writes to the temporary statistics
\* path: column name -> values, one per row of the slice of the buffers.
WriteStatisticsArray(raw_potential, raw_kinetic, raw_volume, step, temperature, pressure, degrees_of_freedom, total_mass) ==
    LET potential_energies == StatisticsTable(raw_potential, step)
        kinetic_energies == StatisticsTable(raw_kinetic, step)
        volumes == StatisticsTable(raw_volume, step)
        rows == 1..Len(potential_energies)
        total_energies ==
            [i \in rows |->
                TotalEnergy(potential_energies[i], kinetic_energies[i])]
        Column(name) ==
            CASE name = "PotentialEnergy" -> potential_energies
              [] name = "KineticEnergy" -> kinetic_energies
              [] name = "TotalEnergy" -> total_energies
              [] name = "Temperature" ->
                    [i \in rows |->
                        Rational(2 * kinetic_energies[i],
                                 degrees_of_freedom * MolarGasConstant)]
              [] name = "Volume" -> volumes
              [] name = "Density" ->
                    [i \in rows |->
                        Rational(total_mass, volumes[i] * AvogadroNumber)]
              [] name = "ReducedPotential" ->
                    [i \in rows |->
                        Rational(potential_energies[i]
                                    + PvTerm(pressure, volumes[i]),
                                 AvogadroNumber * BoltzmannConstant
                                    * temperature)]
              [] name = "Enthalpy" ->
                    [i \in rows |->
                        total_energies[i] + PvTerm(pressure, volumes[i])]
    IN  [name \in Columns(pressure) |-> Column(name)]

\* The raw buffers of a call: three arrays of one length.
RawBuffers ==
    UNION {[potential : [1..n -> PotentialEnergies],
            kinetic : [1..n -> KineticEnergies],
            volume : [1..n -> Volumes]] : n \in 1..MaxRows}

\* A call whose inputs passed the checks of execute is about to write its
\* statistics: in the loop (step below the length of the buffers) or after
\* it (step equal to it).
InitStatistics ==
    /\ InitSimulation
    /\ stored = Unused
    /\ gradient_protocol = Unused
    /\ system = Unused
    /\ yank = Unused
    /\ \E raw \in RawBuffers,
          ensemble \in {NVT, NPT},
          state_pressure \in {None} \cup {<<q>> : q \in 1..MaxPressure},
          temperature \in 1..MaxTemperature,
          degrees_of_freedom \in DegreesOfFreedom,
          total_mass \in TotalMasses :
        /\ ~(ensemble = NPT /\ state_pressure = None)
        /\ \E step \in 0..Len(raw.potential) :
              statistics = [raw |-> raw,
                            ensemble |-> ensemble,
                            state_pressure |-> state_pressure,
                            temperature |-> temperature,
                            degrees_of_freedom |-> degrees_of_freedom,
                            total_mass |-> total_mass,
                            current_step |-> step,
                            written |-> FALSE,
                            table |-> Unused]

WriteStatisticsArrayCall ==
    /\ ~statistics.written
    /\ statistics' =
          [statistics EXCEPT
              !.written = TRUE,
              !.table = WriteStatisticsArray(
                            statistics.raw.potential,
                            statistics.raw.kinetic,
                            statistics.raw.volume,
                            statistics.current_step,
                            statistics.temperature,
                            Pressure(statistics.ensemble,
                                     statistics.state_pressure),
                            statistics.degrees_of_freedom,
                            statistics.total_mass)]
    /\ UNCHANGED <<vars, stored, gradient_protocol, system, yank>>

NextStatistics == WriteStatisticsArrayCall

SpecStatistics == InitStatistics /\ [][NextStatistics]_<<vars, others>>

\* ================================================= degrees of freedom
\* The part of _simulate which counts the degrees of freedom of the system
\* the context was built for: the masses of its particles, the number of its
\* constraints and the types of its forces.

ParticleMasses == {0, 1, 16}

ForceTypes == {"CMMotionRemover", "NonbondedForce", "MonteCarloBarostat"}

\* Mutant: every particle counts, the massless ones too.
MassiveParticlesAll(masses) == Len(masses)

\* The number of particles with a mass above zero.
MassiveParticles(masses) ==
    Cardinality({i \in 1..Len(masses) : masses[i] > 0})

\* any(type(force) == CMMotionRemover) over the forces of the system.
RemovesCentreOfMassMotion(forces) ==
    \E i \in 1..Len(forces) : forces[i] = "CMMotionRemover"

\* degrees_of_freedom as _simulate computes it.
ComputeDegreesOfFreedom(masses, constraints, forces) ==
    LET with_masses == 3 * MassiveParticles(masses)
        with_constraints == with_masses - constraints
    IN  IF RemovesCentreOfMassMotion(forces)
        THEN with_constraints - 3
        ELSE with_constraints

\* The sequences over a set of at most n elements.
SeqUpTo(S, n) == UNION {[1..k -> S] : k \in 0..n}

InitSystem ==
    /\ InitSimulation
    /\ stored = Unused
    /\ gradient_protocol = Unused
    /\ statistics = Unused
    /\ yank = Unused
    /\ system \in [masses : SeqUpTo(ParticleMasses, MaxParticles),
                   constraints : 0..MaxConstraints,
                   forces : SeqUpTo(ForceTypes, 2),
                   computed : {FALSE},
                   degrees_of_freedom : {0}]

DegreesOfFreedomCall ==
    /\ ~system.computed
    /\ system' = [system EXCEPT
                     !.computed = TRUE,
                     !.degrees_of_freedom =
                         ComputeDegreesOfFreedom(system.masses,
                                                 system.constraints,
                                                 system.forces)]
    /\ UNCHANGED <<vars, stored, gradient_protocol, statistics, yank>>

NextSystem == DegreesOfFreedomCall

SpecSystem == InitSystem /\ [][NextSystem]_<<vars, others>>

\* ==================================================== free-energy protocol
\* BaseYankProtocol.execute: the free-energy calculation runs in the calling
\* thread when that is the main thread, and else in a worker process which
\* reports through a multiprocessing queue.  A quantity is the tuple of its
\* magnitude, an absent one is None; a formatted traceback is the list of its
\* lines.

\* traceback.format_exception
FormatException == <<"Traceback (most recent call last):">>

\* What a call of _run_yank does: it returns a free energy and its
\* uncertainty, or it raises an Exception.  (A worker which is killed, or
\* left through SystemExit or KeyboardInterrupt, does not run to the end of
\* _run_yank_as_process and is not modelled.)
RunYankOutcomes ==
    {[exception |-> FALSE, free_energy |-> <<v>>,
      free_energy_uncertainty |-> <<u>>] :
        v \in (-MaxFreeEnergy)..MaxFreeEnergy, u \in 0..MaxUncertainty}
    \cup {[exception |-> TRUE, free_energy |-> None,
           free_energy_uncertainty |-> None]}

\* Mutant: the exception is swallowed, error is left empty.
TryRunYankSwallowing(outcome) ==
    IF outcome.exception
    THEN [free_energy |-> None, free_energy_uncertainty |-> None,
          error |-> None]
    ELSE [free_energy |-> outcome.free_energy,
          free_energy_uncertainty |-> outcome.free_energy_uncertainty,
          error |-> None]

\* The three locals of _run_yank_as_process after its try statement: they
\* start as None; the two values are assigned when _run_yank returns, error
\* when it raises.
TryRunYank(outcome) ==
    IF outcome.exception
    THEN [free_energy |-> None, free_energy_uncertainty |-> None,
          error |-> FormatException]
    ELSE [free_energy |-> outcome.free_energy,
          free_energy_uncertainty |-> outcome.free_energy_uncertainty,
          error |-> None]

\* The tuple the worker puts on the queue.
Message(l) == <<l.free_energy, l.free_energy_uncertainty, l.error>>

\* Mutant: the parent joins the worker before it reads the queue.
ParentOrderJoinFirst == <<"join", "get">>

\* The blocking calls execute makes after process.start(), in order.
ParentOrder == <<"get", "join">>

\* Mutant: the error received is never looked at.
ErrorReportedNever(error) == FALSE

\* if error is not None
ErrorReported(error) == error # None

\* EstimatedQuantity(value, uncertainty, source)
EstimatedQuantity(value, uncertainty) ==
    [value |-> value, uncertainty |-> uncertainty]

\* What execute has ended with: nothing yet, the output dictionary, the
\* PropertyEstimatorException it returned, or the exception it raised.
NotReturned == [kind |-> "none", message |-> None]
OutputDictionary == [kind |-> "output", message |-> None]
PropertyEstimatorException(message) ==
    [kind |-> "PropertyEstimatorException", message |-> message]
Raised == [kind |-> "raised", message |-> None]

\* A protocol just constructed, about to execute, in the main thread or not;
\* fits tells whether the pickled message fits into the buffer of the pipe
\* under the queue.
InitYank ==
    /\ InitSimulation
    /\ stored = Unused
    /\ gradient_protocol = Unused
    /\ statistics = Unused
    /\ system = Unused
    /\ yank \in [main_thread : BOOLEAN,
                 outcome : RunYankOutcomes,
                 fits : BOOLEAN,
                 pc : {"execute"},
                 position : {1},
                 yaml : {FALSE},
                 worker : {"none"},
                 locals : {[free_energy |-> None,
                            free_energy_uncertainty |-> None,
                            error |-> None]},
                 buffer : {<<>>},
                 pipe : {<<>>},
                 put_log : {<<>>},
                 free_energy : {None},
                 free_energy_uncertainty : {None},
                 error : {None},
                 received : {FALSE},
                 joined : {FALSE},
                 estimated_free_energy : {None},
                 returned : {NotReturned}]

\* execute writes yank.yaml.
WriteYaml ==
    /\ yank.pc = "execute"
    /\ yank' = [yank EXCEPT !.yaml = TRUE, !.pc = "written"]
    /\ UNCHANGED <<vars, stored, gradient_protocol, statistics, system>>

\* In the main thread _run_yank is called directly: what it raises leaves
\* execute, what it returns is assigned.
RunYankInMainThread ==
    /\ yank.pc = "written"
    /\ yank.main_thread
    /\ IF yank.outcome.exception
       THEN yank' = [yank EXCEPT !.pc = "done", !.returned = Raised]
       ELSE yank' = [yank EXCEPT
                        !.pc = "estimate",
                        !.free_energy = yank.outcome.free_energy,
                        !.free_energy_uncertainty =
                            yank.outcome.free_energy_uncertainty]
    /\ UNCHANGED <<vars, stored, gradient_protocol, statistics, system>>

\* Off the main thread a queue and a process are created and the process is
\* started.
ProcessStart ==
    /\ yank.pc = "written"
    /\ ~yank.main_thread
    /\ yank' = [yank EXCEPT !.pc = "wait", !.position = 1, !.worker = "try"]
    /\ UNCHANGED <<vars, stored, gradient_protocol, statistics, system>>

\* The parent goes on to its next blocking call, or to the test of error.
Advance(y) ==
    IF y.position = Len(ParentOrder)
    THEN [y EXCEPT !.pc = "check"]
    ELSE [y EXCEPT !.position = y.position + 1]

\* queue.get() returns once a message has arrived through the pipe.
QueueGet ==
    /\ yank.pc = "wait"
    /\ ParentOrder[yank.position] = "get"
    /\ yank.pipe # <<>>
    /\ yank' = Advance([yank EXCEPT
                           !.free_energy = Head(yank.pipe)[1],
                           !.free_energy_uncertainty = Head(yank.pipe)[2],
                           !.error = Head(yank.pipe)[3],
                           !.pipe = Tail(yank.pipe),
                           !.received = TRUE])
    /\ UNCHANGED <<vars, stored, gradient_protocol, statistics, system>>

\* process.join() returns once the worker process has exited.
ProcessJoin ==
    /\ yank.pc = "wait"
    /\ ParentOrder[yank.position] = "join"
    /\ yank.worker = "exited"
    /\ yank' = Advance([yank EXCEPT !.joined = TRUE])
    /\ UNCHANGED <<vars, stored, gradient_protocol, statistics, system>>

\* An error reported by the worker is returned in a
\* PropertyEstimatorException.
CheckError ==
    /\ yank.pc = "check"
    /\ IF ErrorReported(yank.error)
       THEN yank' = [yank EXCEPT
                        !.pc = "done",
                        !.returned = PropertyEstimatorException(yank.error)]
       ELSE yank' = [yank EXCEPT !.pc = "estimate"]
    /\ UNCHANGED <<vars, stored, gradient_protocol, statistics, system>>

\* The estimate is set and the output dictionary returned.
SetEstimate ==
    /\ yank.pc = "estimate"
    /\ yank' = [yank EXCEPT
                   !.pc = "done",
                   !.estimated_free_energy =
                       EstimatedQuantity(yank.free_energy,
                                         yank.free_energy_uncertainty),
                   !.returned = OutputDictionary]
    /\ UNCHANGED <<vars, stored, gradient_protocol, statistics, system>>

\* The worker: the try statement around _run_yank.
WorkerTry ==
    /\ yank.worker = "try"
    /\ yank' = [yank EXCEPT
                   !.worker = "put",
                   !.locals = TryRunYank(yank.outcome)]
    /\ UNCHANGED <<vars, stored, gradient_protocol, statistics, system>>

\* The worker: queue.put appends the tuple to the buffer of the queue and
\* returns.
WorkerPut ==
    /\ yank.worker = "put"
    /\ yank' = [yank EXCEPT
                   !.worker = "exit",
                   !.buffer = Append(yank.buffer, Message(yank.locals)),
                   !.put_log = Append(yank.put_log, Message(yank.locals))]
    /\ UNCHANGED <<vars, stored, gradient_protocol, statistics, system>>

\* The feeder thread of the queue writes the buffered message into the pipe;
\* a message which does not fit into the buffer of the pipe is only written
\* through while the parent is reading.
FeederFlush ==
    /\ yank.buffer # <<>>
    /\ \/ yank.fits
       \/ yank.pc = "wait" /\ ParentOrder[yank.position] = "get"
    /\ yank' = [yank EXCEPT
                   !.pipe = Append(yank.pipe, Head(yank.buffer)),
                   !.buffer = Tail(yank.buffer)]
    /\ UNCHANGED <<vars, stored, gradient_protocol, statistics, system>>

\* The worker process exits once the feeder thread has flushed the buffer
\* (the process joins the feeder thread at exit).
WorkerExit ==
    /\ yank.worker = "exit"
    /\ yank.buffer = <<>>
    /\ yank' = [yank EXCEPT !.worker = "exited"]
    /\ UNCHANGED <<vars, stored, gradient_protocol, statistics, system>>

NextYank ==
    \/ WriteYaml
    \/ RunYankInMainThread
    \/ ProcessStart
    \/ QueueGet
    \/ ProcessJoin
    \/ CheckError
    \/ SetEstimate
    \/ WorkerTry
    \/ WorkerPut
    \/ FeederFlush
    \/ WorkerExit

SpecYank == InitYank /\ [][NextYank]_<<vars, others>>

\* The parent thread, the worker process and the feeder thread are each
\* scheduled as long as they can take a step.
FairSpecYank ==
    /\ SpecYank
    /\ WF_<<vars, others>>(WriteYaml \/ RunYankInMainThread \/ ProcessStart
                           \/ QueueGet \/ ProcessJoin \/ CheckError
                           \/ SetEstimate)
    /\ WF_<<vars, others>>(WorkerTry \/ WorkerPut \/ WorkerExit)
    /\ WF_<<vars, others>>(FeederFlush)

\* ================================================================ claims

LastCall == calls[Len(calls)]

Frames == fs[TrajectoryFilePath].data
Rows == fs[StatisticsFilePath].data

\* Two calls have been made on the empty directory and both succeeded.
TwoSuccessfulCalls ==
    /\ pc = "idle"
    /\ Len(calls) = 2
    /\ calls[1].outcome = "success"
    /\ calls[2].outcome = "success"

\* C1 (as claimed): after a second successful call with the same step count
\* and output frequency as the first, the final trajectory and statistics
\* hold as many entries as one run of that step count produces.
C1_SecondCallAddsNothing ==
    (/\ TwoSuccessfulCalls
     /\ calls[1].steps >= 1
     /\ calls[1].steps = calls[2].steps
     /\ calls[1].output_frequency = calls[2].output_frequency)
    => /\ Len(Frames) = Ceil(calls[1].steps, calls[1].output_frequency)
       /\ Len(Rows) = Ceil(calls[1].steps, calls[1].output_frequency)

\* C2 (as claimed): a call killed at a boundary of the stepping loop after
\* k >= 1 completed reporting intervals leaves a checkpoint on disk which
\* holds the state reached at the end of interval k.
C2_KilledCallLeavesCheckpoint ==
    [][(Kill /\ pc = "step" /\ current_step >= 1)
        => fs'[CheckpointPath] = File(<<context>>)]_vars

C4_TruncatedToNewConfiguration ==
    (/\ TwoSuccessfulCalls
     /\ calls[1].steps >= 1
     /\ calls[2].steps = 2 * calls[1].steps
     /\ calls[2].output_frequency = 2 * calls[1].output_frequency)
    => /\ Len(Frames) = Ceil(calls[2].steps, calls[2].output_frequency)
       /\ Len(Rows) = Ceil(calls[2].steps, calls[2].output_frequency)

\* C5 (as claimed): no statistics table on disk, temporary or final, holds a
\* row of a buffer slot which was never filled.
C5_NoStaleRowPersisted ==
    \A n \in {TemporaryStatisticsPath, StatisticsFilePath} :
        \A i \in 1..Len(fs[n].data) : fs[n].data[i] # 0

\* C6: execute called for the NPT ensemble with periodic boundaries disabled
\* returns a configuration failure at once: no step is taken, no context is
\* built and no file of the working directory changes.
C6_NptWithoutPbcFailsAtOnce ==
    [][\A c \in {x \in Configs : x.ensemble = NPT /\ ~x.enable_pbc} :
        (pc = "idle" /\ Execute(c))
        => /\ pc' = "idle"
           /\ LastCall'.outcome = "config_failure"
           /\ fs' = fs
           /\ context' = context
           /\ stream_open' = stream_open]_vars

C6_Witness ==
    /\ pc = "idle"
    /\ Len(calls) = 2
    /\ calls[1].outcome = "success"
    /\ calls[1].steps >= 1
    /\ LastCall.outcome = "config_failure"
    /\ LastCall.message = "pbc"
    /\ fs = pre

\* C7: a missing temperature, and a missing pressure in the NPT ensemble, are
\* returned by execute as failures with no step taken and no file changed;
\* in the NVT ensemble a call with a temperature and no pressure goes ahead.
C7_MissingStateIsReported ==
    [][\A c \in Configs :
        (pc = "idle" /\ Execute(c)) =>
          /\ (~c.temperature \/ (c.ensemble = NPT /\ ~c.pressure))
             => /\ pc' = "idle"
                /\ LastCall'.outcome = "config_failure"
                /\ LastCall'.message \in {"temperature", "pressure"}
                /\ fs' = fs
                /\ context' = context
          /\ (c.ensemble = NVT /\ c.temperature /\ ~c.pressure)
             => /\ pc' = "setup"
                /\ LastCall'.outcome = "running"]_vars

C7_Witness ==
    /\ pc = "idle"
    /\ Len(calls) = 2
    /\ calls[1].outcome = "config_failure"
    /\ calls[1].message = "temperature"
    /\ calls[2].outcome = "config_failure"
    /\ calls[2].message = "pressure"
    /\ \A n \in FileNames : ~IsFile(fs[n])

\* C8 (as claimed): no reader ever finds the checkpoint, the final trajectory
\* or the final statistics partially written.
C8_NoPartialFinalArtifact ==
    /\ ~fs[CheckpointPath].partial
    /\ ~fs[TrajectoryFilePath].partial
    /\ ~fs[StatisticsFilePath].partial

\* The positions of a call before its finalization has changed anything.
BeforeFinalization ==
    {"setup", "simulate", "step", "frame", "statistics", "checkpoint",
     "checkpoint_write", "close", "promote_trajectory"}

\* C9: until the finalization of a call begins, and after a call which
\* returned a failure, the final trajectory and the final statistics are as
\* they were when the call began.
C9_FinalOutputUntouched ==
    (\/ pc \in BeforeFinalization
     \/ /\ pc = "idle"
        /\ Len(calls) > 0
        /\ LastCall.outcome \in {"failure", "config_failure"})
    => /\ fs[TrajectoryFilePath] = pre[TrajectoryFilePath]
       /\ fs[StatisticsFilePath] = pre[StatisticsFilePath]

C9_Witness ==
    /\ pc = "idle"
    /\ Len(calls) = 2
    /\ calls[1].outcome = "success"
    /\ LastCall.outcome = "failure"
    /\ Len(Frames) >= 1
    /\ Len(fs[TemporaryTrajectoryPath].data) > Len(Frames)

\* C10: once the stepping loop has caught an exception no further step is
\* taken and no further frame written, and the call, unless it is killed,
\* returns a failure value with the traceback, having written the checkpoint
\* of the state reached and closed the trajectory stream.
C10_CaughtExceptionStillCheckpoints ==
    [][(result = "failure") =>
        /\ context' \in {context, NoContext}
        /\ fs'[TemporaryTrajectoryPath] = fs[TemporaryTrajectoryPath]
        /\ (pc' = "idle" /\ LastCall'.outcome # "killed")
           => /\ LastCall'.outcome = "failure"
              /\ LastCall'.message = "traceback"
              /\ fs'[CheckpointPath] = File(<<context>>)
              /\ ~stream_open']_vars

C10_Witness ==
    /\ pc = "idle"
    /\ Len(calls) = 2
    /\ calls[1].outcome = "success"
    /\ LastCall.outcome = "failure"
    /\ LastCall.message = "traceback"
    /\ context > fs[OutputCoordinateFile].data[1]
    /\ fs[CheckpointPath] = File(<<context>>)
    /\ ~stream_open

\* C11 (as claimed): when a call has failed after writing k >= 1 frames and
\* the next call succeeds, the final trajectory and the final statistics begin
\* with the k entries of the failed call, followed by those of the resuming
\* call.
C11_FailedCallEntriesKept ==
    (/\ pc = "idle"
     /\ Len(calls) = 2
     /\ calls[1].outcome = "failure"
     /\ calls[2].outcome = "success"
     /\ Len(pre[TemporaryTrajectoryPath].data) >= 1)
    => /\ IsPrefix(pre[TemporaryTrajectoryPath].data, Frames)
       /\ Len(Rows) >= Len(pre[TemporaryTrajectoryPath].data)

\* C12 (as claimed): a call which returns has returned the success result
\* exactly when it ended in the last step of the finalization, the final
\* coordinate file written; every other call which returns has returned a
\* failure value and left the final coordinate file as it was.
C12_SuccessIffFinalized ==
    [][(pc # "idle" /\ pc' = "idle" /\ LastCall'.outcome # "killed") =>
        IF pc = "output"
        THEN /\ LastCall'.outcome = "success"
             /\ fs'[OutputCoordinateFile] = File(<<context>>)
        ELSE /\ LastCall'.outcome = "failure"
             /\ fs'[OutputCoordinateFile] = pre[OutputCoordinateFile]]_vars

\* C13 (as claimed): no call ends with an exception raised out of execute.
C13_NeverRaised ==
    \A i \in 1..Len(calls) : calls[i].outcome # "raised"

\* C14: a successful first call in the empty directory with S >= 1 steps and
\* output frequency f leaves ceil(S/f) frames and ceil(S/f) rows, the i-th
\* recorded when i whole intervals, or at the last all S steps, were taken.
C14_OneEntryPerInterval ==
    (/\ pc = "idle"
     /\ Len(calls) = 1
     /\ calls[1].outcome = "success"
     /\ calls[1].steps >= 1)
    => LET S == calls[1].steps
           f == calls[1].output_frequency
       IN  /\ Len(Frames) = Ceil(S, f)
           /\ Len(Rows) = Ceil(S, f)
           /\ \A i \in 1..Ceil(S, f) :
                 /\ Frames[i] = Min(i * f, S)
                 /\ Rows[i] = Min(i * f, S)

C14_Witness ==
    /\ pc = "idle"
    /\ Len(calls) = 1
    /\ calls[1].outcome = "success"
    /\ calls[1].steps = 3
    /\ calls[1].output_frequency = 2
    /\ Frames = <<2, 3>>
    /\ Rows = <<2, 3>>

\* ------------------------------------------------ claims on storage/data.py

\* The two records the function was called on, in argument order.
FirstArgument == stored[stored.stored_data_1]
SecondArgument == stored[stored.stored_data_2]

\* The five attributes which are not marked as ignored.
ComparedAttributes ==
    {"substance", "thermodynamic_state", "property_phase", "force_field_id",
     "total_number_of_molecules"}

\* C15: are_compatible returns true exactly when the two records have the
\* same concrete type and agree on substance, thermodynamic state, property
\* phase, force field id and total number of molecules; the values of the
\* other attributes play no part.
C15_CompatibleExactlyWhenComparedAttributesAgree ==
    (stored.method = "are_compatible") =>
        (stored.returned <=>
            /\ FirstArgument.type = SecondArgument.type
            /\ \A name \in ComparedAttributes :
                  FirstArgument[name] = SecondArgument[name])

C15_Witness ==
    /\ stored.method = "are_compatible"
    /\ stored.stored_data_1 = "a"
    /\ stored.stored_data_2 = "b"
    /\ stored.returned
    /\ \A name \in StorageAttributes \ ComparedAttributes :
          stored.a[name] # stored.b[name]

\* C16: are_compatible called on a record and itself returns true.
C16_CompatibleWithItself ==
    (stored.method = "are_compatible" /\ FirstArgument = SecondArgument)
        => stored.returned

C16_Witness ==
    /\ stored.method = "are_compatible"
    /\ stored.stored_data_1 = "b"
    /\ stored.stored_data_2 = "b"
    /\ stored.b.type = "Subclass"
    /\ stored.b.substance = "v2"
    /\ stored.b.provenance = "v1"
    /\ stored.b.statistical_inefficiency = 1
    /\ stored.returned

\* C17 (as claimed): most_information called on two incompatible records
\* fails with an IncompatibleDataError and returns neither record.
C17_FailsWithIncompatibleDataError ==
    (/\ stored.method = "most_information"
     /\ ~AreCompatible(FirstArgument, SecondArgument))
    => stored.returned = Raise("IncompatibleDataError")

\* C17 (amended): most_information called on two incompatible records fails
\* with a ValueError and returns neither record.
C17_FailsWithValueError ==
    (/\ stored.method = "most_information"
     /\ ~AreCompatible(FirstArgument, SecondArgument))
    => /\ stored.returned.raised = "ValueError"
       /\ stored.returned.returned = "none"

C17_Witness ==
    /\ stored.method = "most_information"
    /\ stored.stored_data_1 = "a"
    /\ stored.stored_data_2 = "b"
    /\ stored.a.type = stored.b.type
    /\ stored.a.force_field_id # stored.b.force_field_id
    /\ stored.b.statistical_inefficiency < stored.a.statistical_inefficiency
    /\ stored.returned.raised = "ValueError"

\* The cached record ("a", "b") an outcome of most_information called on
\* (first, second) returned, "none" when it raised.
ReturnedRecord(first, second, outcome) ==
    IF outcome.returned = "stored_data_1" THEN first
    ELSE IF outcome.returned = "stored_data_2" THEN second
    ELSE "none"

\* C18 (as claimed): for compatible records most_information returns the one
\* with the strictly lower statistical inefficiency, and the first argument
\* when the two inefficiencies are equal.
C18_TieReturnsFirst ==
    (/\ stored.method = "most_information"
     /\ AreCompatible(FirstArgument, SecondArgument))
    => /\ stored.returned.raised = "none"
       /\ stored[ReturnedRecord(stored.stored_data_1, stored.stored_data_2,
                                stored.returned)]
            = IF FirstArgument.statistical_inefficiency
                     > SecondArgument.statistical_inefficiency
              THEN SecondArgument
              ELSE FirstArgument

\* C18 (amended): for compatible records most_information returns the one
\* with the strictly lower statistical inefficiency, and the second argument
\* when the two inefficiencies are equal.
C18_TieReturnsSecond ==
    (/\ stored.method = "most_information"
     /\ AreCompatible(FirstArgument, SecondArgument))
    => /\ stored.returned.raised = "none"
       /\ ReturnedRecord(stored.stored_data_1, stored.stored_data_2,
                         stored.returned)
            = IF FirstArgument.statistical_inefficiency
                     < SecondArgument.statistical_inefficiency
              THEN stored.stored_data_1
              ELSE stored.stored_data_2

C18_Witness ==
    /\ stored.method = "most_information"
    /\ stored.stored_data_1 = "a"
    /\ stored.stored_data_2 = "b"
    /\ AreCompatible(stored.a, stored.b)
    /\ stored.a.statistical_inefficiency = stored.b.statistical_inefficiency
    /\ stored.a.trajectory_file_name # stored.b.trajectory_file_name
    /\ stored.returned = Return("stored_data_2")

\* C19: for compatible records with different statistical inefficiencies,
\* most_information called with the arguments exchanged returns the same
\* record.
C19_SelectionIndependentOfArgumentOrder ==
    (/\ stored.method = "most_information"
     /\ AreCompatible(FirstArgument, SecondArgument)
     /\ FirstArgument.statistical_inefficiency
            # SecondArgument.statistical_inefficiency)
    => /\ stored.returned.raised = "none"
       /\ ReturnedRecord(stored.stored_data_1, stored.stored_data_2,
                         stored.returned)
            = ReturnedRecord(stored.stored_data_2, stored.stored_data_1,
                             MostInformation(SecondArgument, FirstArgument))

C19_Witness ==
    /\ stored.method = "most_information"
    /\ stored.stored_data_1 = "b"
    /\ stored.stored_data_2 = "a"
    /\ AreCompatible(stored.a, stored.b)
    /\ stored.a.statistical_inefficiency < stored.b.statistical_inefficiency
    /\ stored.a.provenance # stored.b.provenance
    /\ stored.returned = Return("stored_data_2")

\* ------------------------------------------ claims on the gradient protocol

\* C20: with distinct forward and reverse parameter values the protocol
\* succeeds and its gradient is the difference of the observables divided by
\* the difference of the parameter values; reverse parameter -2, reverse
\* observable -4, forward parameter 3, forward observable 9 give 13/5.
C20_GradientIsDifferenceQuotient ==
    (/\ gradient_protocol.result # "none"
     /\ gradient_protocol.forward_parameter_value
            # gradient_protocol.reverse_parameter_value)
    => /\ gradient_protocol.result = "success"
       /\ gradient_protocol.gradient.denominator # 0
       /\ gradient_protocol.gradient.numerator
              * (gradient_protocol.forward_parameter_value
                    - gradient_protocol.reverse_parameter_value)
          = (gradient_protocol.forward_observable_value
                - gradient_protocol.reverse_observable_value)
              * gradient_protocol.gradient.denominator
       /\ (/\ gradient_protocol.reverse_parameter_value = -2
           /\ gradient_protocol.reverse_observable_value = -4
           /\ gradient_protocol.forward_parameter_value = 3
           /\ gradient_protocol.forward_observable_value = 9)
          => gradient_protocol.gradient
                = [numerator |-> 13, denominator |-> 5]

C20_Witness ==
    /\ gradient_protocol.result = "success"
    /\ gradient_protocol.reverse_parameter_value = -2
    /\ gradient_protocol.reverse_observable_value = -4
    /\ gradient_protocol.forward_parameter_value = 3
    /\ gradient_protocol.forward_observable_value = 9
    /\ gradient_protocol.gradient = [numerator |-> 13, denominator |-> 5]

\* C21: with equal forward and reverse parameter values the protocol ends
\* with a failure and no gradient: the quotient is not computed.
C21_EqualParametersAreRejected ==
    (/\ gradient_protocol.result # "none"
     /\ gradient_protocol.forward_parameter_value
            = gradient_protocol.reverse_parameter_value)
    => /\ gradient_protocol.result = "failure"
       /\ gradient_protocol.gradient = Unused

C21_Witness ==
    /\ gradient_protocol.result = "failure"
    /\ gradient_protocol.forward_parameter_value = 3
    /\ gradient_protocol.reverse_parameter_value = 3
    /\ gradient_protocol.forward_observable_value = 9
    /\ gradient_protocol.reverse_observable_value = -4
    /\ gradient_protocol.gradient = Unused

\* -------------------------------------- claims on the statistics table

\* C22: a table written in the NVT ensemble has no enthalpy column, whatever
\* pressure the thermodynamic state carries; a table written in the NPT
\* ensemble has one, each enthalpy being the total energy of its row plus
\* pressure times volume times the Avogadro number.
C22_EnthalpyOnlyWithPressure ==
    statistics.written =>
        IF statistics.ensemble = NVT
        THEN "Enthalpy" \notin DOMAIN statistics.table
        ELSE /\ "Enthalpy" \in DOMAIN statistics.table
             /\ Len(statistics.table["Enthalpy"])
                    = Len(statistics.table["TotalEnergy"])
             /\ \A i \in 1..Len(statistics.table["Enthalpy"]) :
                   statistics.table["Enthalpy"][i]
                      = statistics.table["TotalEnergy"][i]
                          + statistics.state_pressure[1]
                              * statistics.table["Volume"][i]
                              * AvogadroNumber

C22_Witness ==
    /\ statistics.written
    /\ statistics.ensemble = NVT
    /\ statistics.state_pressure = <<2>>
    /\ statistics.current_step = 1
    /\ statistics.raw.volume = <<3, 3>>
    /\ "Enthalpy" \notin DOMAIN statistics.table
    /\ Len(statistics.table["Volume"]) = 2

\* C23: a table has the seven fixed columns and beside them at most the
\* enthalpy, all columns have the same number of rows, and in every row the
\* total energy is the potential plus the kinetic energy.
C23_FixedColumnsAndTotalEnergy ==
    statistics.written =>
        /\ BaseColumns \subseteq DOMAIN statistics.table
        /\ DOMAIN statistics.table \subseteq BaseColumns \cup {"Enthalpy"}
        /\ \A name \in DOMAIN statistics.table :
              Len(statistics.table[name])
                 = Len(statistics.table["PotentialEnergy"])
        /\ \A i \in 1..Len(statistics.table["TotalEnergy"]) :
              /\ statistics.table["TotalEnergy"][i]
                    = statistics.table["PotentialEnergy"][i]
                        + statistics.table["KineticEnergy"][i]
              /\ (/\ statistics.table["PotentialEnergy"][i] = 100
                  /\ statistics.table["KineticEnergy"][i] = 50)
                 => statistics.table["TotalEnergy"][i] = 150

C23_Witness ==
    /\ statistics.written
    /\ Len(statistics.table["TotalEnergy"]) = 2
    /\ statistics.table["PotentialEnergy"][2] = 100
    /\ statistics.table["KineticEnergy"][2] = 50
    /\ statistics.table["TotalEnergy"][2] = 150
    /\ statistics.table["PotentialEnergy"][1] = -7

\* ------------------------------------ further claims on the simulation

\* The physical state the checkpoint held when the call in progress began.
CheckpointedState == pre[CheckpointPath].data[1]

InLoop == pc \in {"step", "frame", "statistics"}

\* C25 (as claimed): when an interval of a call has completed and the next is
\* about to begin, the checkpoint on disk holds the state reached at the end
\* of the completed interval.
C25_CheckpointAfterEveryInterval ==
    (pc = "step" /\ current_step >= 1)
        => fs[CheckpointPath] = File(<<context>>)

\* The state a call started stepping from.
StartState ==
    IF IsFile(pre[CheckpointPath]) THEN CheckpointedState ELSE 0

\* C26 (as claimed): the state about to be written to the checkpoint is the
\* one recorded by the last frame and row of this call, or, no interval of
\* this call having completed, the state the call started from.
C26_CheckpointNeverAheadOfOutput ==
    (pc = "checkpoint_write") =>
        context = IF current_step >= 1 THEN raw_statistics[current_step]
                  ELSE StartState

\* C27: while a call is in progress the cumulative step count never exceeds
\* the target step count; after i iterations it is min(i * output frequency,
\* steps), each iteration having added min(output frequency, remaining
\* steps); it is a multiple of the output frequency unless it has reached the
\* target by the last, partial batch.
C27_StepCursor ==
    (pc # "idle") =>
        /\ current_step_count <= cfg.steps
        /\ current_step_count
              = Min(current_step * cfg.output_frequency, cfg.steps)
        /\ \/ current_step_count % cfg.output_frequency = 0
           \/ current_step_count = cfg.steps

\* The loop has ended by its test after a last batch shorter than the output
\* frequency.
C27_Witness ==
    /\ pc = "checkpoint"
    /\ result = "none"
    /\ cfg.steps = 3
    /\ cfg.output_frequency = 2
    /\ current_step = 2
    /\ current_step_count = 3

\* C28: the stepping loop ends.  When it ends by its test, ceil(steps /
\* output frequency) iterations were made and the cumulative step count is
\* the target; once an exception was caught no iteration is under way any
\* more; and an iteration under way always leads out of the loop.
C28_LoopTerminates ==
    /\ []((pc = "checkpoint" /\ result = "none") =>
            /\ current_step = Ceil(cfg.steps, cfg.output_frequency)
            /\ current_step_count = cfg.steps)
    /\ [](result = "failure" => ~InLoop)
    /\ (InLoop ~> ~InLoop)

\* The loop has ended by its test after two iterations.
C28_Witness ==
    /\ pc = "checkpoint"
    /\ result = "none"
    /\ cfg.steps = 2
    /\ cfg.output_frequency = 1
    /\ current_step = 2
    /\ current_step_count = 2
    /\ context >= 2

\* C29: when a call has returned the success result, the frames the final
\* trajectory held when the call began are a prefix of its frames now, and
\* the rows the final statistics held when the call began are a prefix of its
\* rows now.
C29_CommittedOutputOnlyExtended ==
    (/\ pc = "idle"
     /\ Len(calls) >= 1
     /\ LastCall.outcome = "success")
    => /\ IsPrefix(pre[TrajectoryFilePath].data, Frames)
       /\ IsPrefix(pre[StatisticsFilePath].data, Rows)

\* A second successful call has extended the output of the first.
C29_Witness ==
    /\ TwoSuccessfulCalls
    /\ Len(pre[TrajectoryFilePath].data) >= 1
    /\ Len(pre[StatisticsFilePath].data) >= 1
    /\ Len(Frames) > Len(pre[TrajectoryFilePath].data)
    /\ Len(Rows) > Len(pre[StatisticsFilePath].data)
    /\ IsPrefix(pre[TrajectoryFilePath].data, Frames)
    /\ IsPrefix(pre[StatisticsFilePath].data, Rows)

\* The row recorded at the end of the i-th interval of the call in progress.
RowOfInterval(i) == StartState + Min(i * cfg.output_frequency, cfg.steps)

\* C30: with rolling statistics, while the loop runs and i intervals of the
\* call have completed, the temporary statistics file holds the i rows of
\* these intervals (no file before the first); without rolling statistics
\* there is no temporary statistics file until the loop has ended and the
\* stream been closed, and there is one from then to the finalization.
C30_RollingStatistics ==
    IF cfg.save_rolling_statistics
    THEN InLoop =>
            IF current_step = 0
            THEN ~IsFile(fs[TemporaryStatisticsPath])
            ELSE fs[TemporaryStatisticsPath]
                    = File([i \in 1..current_step |-> RowOfInterval(i)])
    ELSE /\ (InLoop \/ pc \in {"checkpoint", "checkpoint_write", "close"})
              => ~IsFile(fs[TemporaryStatisticsPath])
         /\ (pc \in {"promote_trajectory", "promote_statistics"})
              => IsFile(fs[TemporaryStatisticsPath])

\* Two of three intervals have completed and their two rows can be read.
C30_Witness ==
    /\ pc = "step"
    /\ cfg.save_rolling_statistics
    /\ cfg.steps = 3
    /\ cfg.output_frequency = 1
    /\ current_step = 2
    /\ StartState >= 1
    /\ fs[TemporaryStatisticsPath]
          = File(<<StartState + 1, StartState + 2>>)

\* ------------------------------------- claims on the degrees of freedom

\* C31: the degrees of freedom are 3 times the number of particles with a
\* nonzero mass, less the number of constraints, less 3 exactly when one of
\* the forces is a centre-of-mass motion remover.
C31_DegreesOfFreedom ==
    system.computed =>
        LET massive == {i \in DOMAIN system.masses : system.masses[i] # 0}
            remover == "CMMotionRemover" \in
                          {system.forces[i] : i \in DOMAIN system.forces}
        IN  system.degrees_of_freedom
               = 3 * Cardinality(massive) - system.constraints
                   - (IF remover THEN 3 ELSE 0)

C31_Witness ==
    /\ system.computed
    /\ system.masses = <<16, 0, 1>>
    /\ system.constraints = 2
    /\ system.forces = <<"NonbondedForce", "CMMotionRemover">>
    /\ system.degrees_of_freedom = 1

\* -------------------------------- claims on the raw statistics buffer

\* C32: when the raw values of an interval are about to be stored, the
\* reporting index lies inside the buffer, whose length is ceil(steps /
\* output frequency), the slot at the index has not been written before, and
\* the slots below it have all been written.
C32_BufferWritesInRange ==
    (pc = "statistics") =>
        /\ Len(raw_statistics) = Ceil(cfg.steps, cfg.output_frequency)
        /\ current_step < Len(raw_statistics)
        /\ raw_statistics[current_step + 1] = 0
        /\ \A i \in 1..current_step : raw_statistics[i] # 0

\* The last slot of a buffer of two is about to be written.
C32_Witness ==
    /\ pc = "statistics"
    /\ cfg.steps = 3
    /\ cfg.output_frequency = 2
    /\ current_step = 1
    /\ Len(raw_statistics) = 2
    /\ raw_statistics[1] # 0
    /\ raw_statistics[2] = 0

\* Every call made so far has returned, with the success result or with a
\* failure value.
EveryCallReturned ==
    /\ pc = "idle"
    /\ \A i \in 1..Len(calls) :
          calls[i].outcome \in {"success", "failure", "config_failure"}

\* C33: when every call made on the directory has returned, the final
\* trajectory and the final statistics either both do not exist, or both
\* exist and hold as many frames as rows.
C33_FramesMatchRows ==
    EveryCallReturned =>
        \/ /\ ~IsFile(fs[TrajectoryFilePath])
           /\ ~IsFile(fs[StatisticsFilePath])
        \/ /\ IsFile(fs[TrajectoryFilePath])
           /\ IsFile(fs[StatisticsFilePath])
           /\ ~fs[StatisticsFilePath].partial
           /\ Len(Frames) = Len(Rows)

\* Two successful calls have appended to both files.
C33_Witness ==
    /\ EveryCallReturned
    /\ Len(calls) = 2
    /\ calls[1].outcome = "success"
    /\ calls[2].outcome = "success"
    /\ IsFile(fs[TrajectoryFilePath])
    /\ IsFile(fs[StatisticsFilePath])
    /\ Len(Frames) = 3
    /\ Len(Rows) = 3

\* ------------------------------------- further claims on storage/data.py

\* C34: are_compatible is symmetric: what a call returned is what the
\* function gives on the same two records in the other order.
C34_AreCompatibleSymmetric ==
    (stored.method = "are_compatible") =>
        stored.returned = AreCompatible(SecondArgument, FirstArgument)

\* are_compatible was called as (b, a) on two records which differ (in type
\* and in an ignored attribute), and as (a, b) on two which are compatible.
C34_Witness ==
    /\ stored.method = "are_compatible"
    /\ stored.stored_data_1 = "b"
    /\ stored.stored_data_2 = "a"
    /\ stored.a.type # stored.b.type
    /\ stored.a.provenance # stored.b.provenance
    /\ stored.returned = FALSE

\* C35: a call of are_compatible or of most_information (a step which sets
\* the method called) leaves the two cached records as they were, and when
\* most_information returns, it returns one of its two arguments, whose
\* inefficiency is the minimum of the two.
C35_ArgumentsUnmodified ==
    [][(stored.method = "none" /\ stored'.method # "none") =>
          /\ stored'.a = stored.a
          /\ stored'.b = stored.b
          /\ (/\ stored'.method = "most_information"
              /\ stored'.returned.raised = "none")
             => /\ stored'.returned.returned
                       \in {"stored_data_1", "stored_data_2"}
                /\ stored'[ReturnedRecord(stored'.stored_data_1,
                                          stored'.stored_data_2,
                                          stored'.returned)]
                       .statistical_inefficiency
                   = Min(stored'[stored'.stored_data_1]
                             .statistical_inefficiency,
                         stored'[stored'.stored_data_2]
                             .statistical_inefficiency)]_<<vars, others>>

\* most_information returned its first argument, which has the lower
\* inefficiency of two different records.
C35_Witness ==
    /\ stored.method = "most_information"
    /\ stored.stored_data_1 = "b"
    /\ stored.stored_data_2 = "a"
    /\ stored.returned.raised = "none"
    /\ stored.returned.returned = "stored_data_1"
    /\ stored.b.statistical_inefficiency = 0
    /\ stored.a.statistical_inefficiency = 2

\* --------------------------------------- claims on the free-energy worker

\* The worker has run to the end of _run_yank_as_process.
WorkerDone == yank.worker \in {"exit", "exited"}

\* C36: the worker never puts more than one message, and once it has run to
\* its end it has put exactly one: the two values and an empty error when
\* _run_yank returned, two empty values and the formatted traceback when it
\* raised.
C36_ExactlyOneMessage ==
    /\ Len(yank.put_log) <= 1
    /\ WorkerDone =>
        /\ Len(yank.put_log) = 1
        /\ IF yank.outcome.exception
           THEN yank.put_log[1] = <<None, None, FormatException>>
           ELSE /\ yank.put_log[1] = <<yank.outcome.free_energy,
                                       yank.outcome.free_energy_uncertainty,
                                       None>>
                /\ yank.outcome.free_energy # None
                /\ yank.outcome.free_energy_uncertainty # None

\* The worker has reported an exception.
C36_Witness ==
    /\ yank.worker = "exited"
    /\ yank.outcome.exception
    /\ yank.put_log = <<(<<None, None, FormatException>>)>>

\* C37: off the main thread, when execute has returned after the worker
\* reported an error, it returned a failure value carrying that error and
\* the estimate is unset; and the estimate is never set unless the worker
\* reported no error.
C37_ErrorReturnedAsFailure ==
    (~yank.main_thread) =>
        /\ (yank.pc = "done" /\ yank.error # None) =>
              /\ yank.returned = PropertyEstimatorException(yank.error)
              /\ yank.error = FormatException
              /\ yank.estimated_free_energy = None
        /\ (yank.estimated_free_energy # None) =>
              /\ yank.received
              /\ yank.error = None
              /\ yank.put_log[1][3] = None

\* execute has returned the failure value off the main thread.
C37_Witness ==
    /\ ~yank.main_thread
    /\ yank.pc = "done"
    /\ yank.received
    /\ yank.error = FormatException
    /\ yank.returned.kind = "PropertyEstimatorException"

\* C38: off the main thread the parent has received the result whenever it
\* has joined the worker, and once the process is started execute
\* eventually returns.
C38_ReceivesThenJoinsAndReturns ==
    /\ [](yank.joined => yank.received)
    /\ ((~yank.main_thread /\ yank.pc = "wait") ~> (yank.pc = "done"))

\* execute has returned after receiving a message which did not fit into
\* the pipe and joining the worker.
C38_Witness ==
    /\ ~yank.main_thread
    /\ ~yank.fits
    /\ yank.received
    /\ yank.joined
    /\ yank.pc = "done"

====
